---- MODULE Spec2Model ----
(***************************************************************************)
(* A model of src/heic_to_png.py: one call of convert_heic_to_png, in      *)
(* single-file or batch mode, against a small file system.                 *)
(*                                                                         *)
(* File names are sequences of characters and paths are sequences of       *)
(* names, so that pathlib's stem / suffix / with_suffix, the glob pattern  *)
(* "*.heic" and str(path) are computed as pathlib computes them.           *)
(***************************************************************************)
EXTENDS Integers, Sequences, FiniteSets, TLC

(***************************************************************************)
(* Bounds of the model.                                                    *)
(***************************************************************************)
\* the largest number of *.heic entries the input directory starts with
MaxFiles == 2
\* the largest value multiprocessing.cpu_count() returns
MaxCpu == 2

(***************************************************************************)
(* Characters, names and paths.                                            *)
(***************************************************************************)
DOT == "."
SEP == "/"

\* the literal of the glob pattern "*.heic" after the star
HEIC_EXT == <<".", "h", "e", "i", "c">>
\* the literal '.png' of with_suffix('.png') and f"{stem}.png"
PNG_EXT == <<".", "p", "n", "g">>
\* the literal "converted", the default batch output directory
CONVERTED == <<"c", "o", "n", "v", "e", "r", "t", "e", "d">>

\* str.rfind('.') on a name, 1-based; 0 when the name holds no dot
RFindDot(name) ==
    LET hits == {i \in 1..Len(name) : name[i] = DOT}
    IN  IF hits = {} THEN 0 ELSE CHOOSE i \in hits : \A j \in hits : j <= i

\* PurePath.suffix: the part from the last dot, unless that dot is the first
\* or the last character of the name
Suffix(name) ==
    LET j == RFindDot(name)
    IN  IF 1 < j /\ j < Len(name) THEN SubSeq(name, j, Len(name)) ELSE <<>>

\* PurePath.stem: the name without its suffix
Stem(name) ==
    LET j == RFindDot(name)
    IN  IF 1 < j /\ j < Len(name) THEN SubSeq(name, 1, j - 1) ELSE name

\* PurePath.name and PurePath.parent of a path with at least one component
Name(p) == p[Len(p)]
Parent(p) == SubSeq(p, 1, Len(p) - 1)

\* the path operator "/" with one more component
Join(p, name) == Append(p, name)

\* PurePath.with_suffix(ext): the old suffix dropped, ext appended
WithSuffix(p, ext) ==
    LET name == Name(p)
        old  == Suffix(name)
    IN  Join(Parent(p), SubSeq(name, 1, Len(name) - Len(old)) \o ext)

\* fnmatch of a name against "*.heic"
MatchesHeic(name) ==
    /\ Len(name) >= Len(HEIC_EXT)
    /\ SubSeq(name, Len(name) - Len(HEIC_EXT) + 1, Len(name)) = HEIC_EXT

\* str(path): the components joined by the separator ("." for the empty path)
RECURSIVE PathStr(_)
PathStr(p) ==
    IF p = <<>> THEN <<DOT>>
    ELSE IF Len(p) = 1 THEN p[1]
    ELSE PathStr(Parent(p)) \o <<SEP>> \o Name(p)

(***************************************************************************)
(* Images.  An image is a color mode and one pixel, a tuple of 8-bit       *)
(* bands; a palette image holds an index into PALETTE.                     *)
(***************************************************************************)
\* the fill color (255, 255, 255) of Image.new('RGB', img.size, ...)
WHITE == <<255, 255, 255>>

PALETTE == <<<<0, 0, 0>>, <<200, 100, 50>>>>

\* the library's division by 255 of a product of two bands
Div255(a) == (((a + 128) \div 256) + (a + 128)) \div 256

\* one band of Image.paste under a mask value
Blend8(mask, under, over) == Div255(under * (255 - mask) + over * mask)

\* img.split()[-1]: the last band
LastBand(img) == img.px[Len(img.px)]

\* the color bands of an image with alpha, as paste sees them in an RGB image
ColorBands(img) ==
    IF img.mode = "LA" THEN <<img.px[1], img.px[1], img.px[1]>>
    ELSE <<img.px[1], img.px[2], img.px[3]>>

\* background = Image.new('RGB', size, white); background.paste(img, mask)
Composite(img) ==
    LET m == LastBand(img)
        c == ColorBands(img)
    IN  [mode |-> "RGB", px |-> [i \in 1..3 |-> Blend8(m, WHITE[i], c[i])]]

\* img.convert('RGB'): gray replicated, the palette looked up, alpha dropped
ConvertRGB(img) ==
    IF img.mode \in {"L", "LA"}
    THEN [mode |-> "RGB", px |-> <<img.px[1], img.px[1], img.px[1]>>]
    ELSE IF img.mode = "P" THEN [mode |-> "RGB", px |-> PALETTE[img.px[1]]]
    ELSE [mode |-> "RGB", px |-> SubSeq(img.px, 1, 3)]

\* the normalization with the alpha test on RGBA alone
Normalize_OnlyRGBA(img) ==
    IF img.mode = "RGBA" THEN Composite(img)
    ELSE IF img.mode # "RGB" THEN ConvertRGB(img)
    ELSE img

\* the color normalization of _convert_single_file
Normalize(img) ==
    IF img.mode \in {"RGBA", "LA"} THEN Composite(img)
    ELSE IF img.mode # "RGB" THEN ConvertRGB(img)
    ELSE img

(***************************************************************************)
(* The file system: a function from the paths that exist to their entry.   *)
(***************************************************************************)
DirEntry == [kind |-> "dir", fmt |-> "-", mode |-> "-", px |-> <<>>]
HeicFile(mode, px) == [kind |-> "file", fmt |-> "heic", mode |-> mode, px |-> px]
\* a file no decoder identifies
JunkFile == [kind |-> "file", fmt |-> "junk", mode |-> "-", px |-> <<>>]
\* a PNG written by an earlier run
OldPng == [kind |-> "file", fmt |-> "png", mode |-> "RGB", px |-> <<1, 2, 3>>]
\* a file opened with "w+b" and not (or not fully) written
Truncated == [kind |-> "file", fmt |-> "trunc", mode |-> "-", px |-> <<>>]
PngFile(img) == [kind |-> "file", fmt |-> "png", mode |-> img.mode, px |-> img.px]
\* what a path that does not exist reads as
Absent == [kind |-> "absent", fmt |-> "-", mode |-> "-", px |-> <<>>]

Entry(f, p) == IF p \in DOMAIN f THEN f[p] ELSE Absent
Exists(f, p) == p \in DOMAIN f
IsDir(f, p) == Entry(f, p).kind = "dir"
IsFile(f, p) == Entry(f, p).kind = "file"

Remove(f, p) == [q \in DOMAIN f \ {p} |-> f[q]]
Put(f, p, e) == [q \in DOMAIN f \cup {p} |-> IF q = p THEN e ELSE f[q]]

\* the prefixes of a path, the path included, the root excluded
Ancestors(p) == {SubSeq(p, 1, k) : k \in 1..Len(p)}

\* Path.mkdir(parents=True, exist_ok=True): "" and the new file system, or the
\* error it raises and the file system unchanged
MkdirError(f, p) ==
    IF \E q \in Ancestors(p) \ {p} : Exists(f, q) /\ ~IsDir(f, q) THEN "NotADirectoryError"
    ELSE IF Exists(f, p) /\ ~IsDir(f, p) THEN "FileExistsError"
    ELSE ""

\* the directory never made
MkdirParents_Forgotten(f, p) == f

MkdirParents(f, p) ==
    IF MkdirError(f, p) # "" THEN f
    ELSE [q \in DOMAIN f \cup Ancestors(p) |-> IF q \in DOMAIN f THEN f[q] ELSE DirEntry]

\* input_path.glob("*.heic"): the entries of the directory whose name matches
Glob(f, dir) ==
    {p \in DOMAIN f : Len(p) = Len(dir) + 1 /\ Parent(p) = dir /\ MatchesHeic(Name(p))}

(***************************************************************************)
(* The names and the inputs the model draws from.                          *)
(***************************************************************************)
IN_DIR == <<"i", "n">>
OUT_DIR == <<"o", "u", "t">>
NO_SUCH == <<"n", "o">>
A_HEIC == <<"a">> \o HEIC_EXT
DOT_HEIC == HEIC_EXT
DOT_HEIC_HEIC == HEIC_EXT \o HEIC_EXT
A_PNG == <<"a">> \o PNG_EXT
C_PNG == <<"c">> \o PNG_EXT

\* the *.heic entries the input directory may hold, and what each may hold
HeicNames == {A_HEIC, DOT_HEIC, DOT_HEIC_HEIC}

Contents(name) ==
    IF name = A_HEIC THEN
        { HeicFile("RGB", <<10, 20, 30>>),
          HeicFile("RGBA", <<10, 20, 30, 0>>),
          HeicFile("RGBA", <<10, 20, 30, 128>>),
          HeicFile("LA", <<40, 128>>),
          HeicFile("L", <<40>>),
          HeicFile("P", <<2>>),
          JunkFile }
    ELSE IF name = DOT_HEIC THEN {HeicFile("RGBA", <<10, 20, 30, 255>>), JunkFile}
    ELSE {HeicFile("LA", <<40, 0>>), JunkFile}

\* the input argument: the directory, a file in it with a suffix, one without,
\* a path that does not exist
InputArgs == {<<IN_DIR>>, <<IN_DIR, A_HEIC>>, <<IN_DIR, DOT_HEIC>>, <<NO_SUCH>>}

\* the output argument: None, or a string; the path <<>> stands for the
\* empty string
NoOutput == [given |-> FALSE, path |-> <<>>]
OutputArgs ==
    {NoOutput} \cup
    {[given |-> TRUE, path |-> p] : p \in {<<>>, <<OUT_DIR>>, <<OUT_DIR, C_PNG>>}}

\* the truth value of the output argument: None and "" are false
Truthy(outarg) == outarg.given /\ outarg.path # <<>>

\* the file systems a call starts from: the input directory with its *.heic
\* entries, a directory a.png beside them or not (it matters to the
\* single-file default destination), and the path "out" absent, a file, an
\* empty directory or a directory holding a.png (it matters when an output
\* argument is given)
InitialFs(heics, content, apng, out) ==
    LET base == (<<>> :> DirEntry) @@ (<<IN_DIR>> :> DirEntry)
        srcs == [p \in {<<IN_DIR, n>> : n \in heics} |-> content[Name(p)]]
        side == IF apng = "dir" THEN (<<IN_DIR, A_PNG>> :> DirEntry) ELSE << >>
        dst  == IF out = "file" THEN (<<OUT_DIR>> :> OldPng)
                ELSE IF out = "dir" THEN (<<OUT_DIR>> :> DirEntry)
                ELSE IF out = "full" THEN (<<OUT_DIR>> :> DirEntry) @@ (<<OUT_DIR, A_PNG>> :> OldPng)
                ELSE << >>
    IN  base @@ srcs @@ side @@ dst

(***************************************************************************)
(* The state of one call of convert_heic_to_png.                           *)
(***************************************************************************)
VARIABLES
    fs,               \* the file system
    fs0,              \* the file system the call started from
    input_path,       \* the arguments of the call
    output_arg,
    batch,
    pc,               \* where the calling thread is
    err,              \* the exception the call raised, "" when none
    output_path,      \* the local output_path once resolved
    heic_files,       \* the list glob returned (its order is arbitrary)
    max_workers,
    task,             \* per source file: the _convert_single_file call on it
    queue,            \* the executor's work queue
    converted_files,
    stderr,           \* the source files reported on the error stream
    result            \* the value returned

vars == <<fs, fs0, input_path, output_arg, batch, pc, err, output_path, heic_files,
          max_workers, task, queue, converted_files, stderr, result>>

NoImage == [mode |-> "-", px |-> <<>>]

Init ==
    /\ input_path \in InputArgs
    /\ output_arg \in OutputArgs
    /\ batch \in BOOLEAN
    /\ \E heics \in SUBSET HeicNames,
          apng \in (IF batch THEN {"absent"} ELSE {"absent", "dir"}),
          out \in (IF Truthy(output_arg) THEN {"absent", "file", "dir", "full"}
                   ELSE {"absent"}) :
        /\ Cardinality(heics) <= MaxFiles
        /\ \E content \in [heics -> UNION {Contents(n) : n \in HeicNames}] :
            /\ \A n \in heics : content[n] \in Contents(n)
            /\ fs = InitialFs(heics, content, apng, out)
        /\ fs0 = fs
        /\ pc = "start"
        /\ err = ""
        /\ output_path = <<>>
        /\ heic_files = {}
        /\ max_workers = 0
        /\ task = << >>
        /\ queue = << >>
        /\ converted_files = << >>
        /\ stderr = << >>
        /\ result = << >>

(***************************************************************************)
(* convert_heic_to_png: the calling thread.                                *)
(***************************************************************************)
\* the checks without the test of the kind of the input
ValidationError_NoKindCheck(f, inp, b) ==
    IF ~Exists(f, inp) THEN "FileNotFoundError" ELSE ""

\* the checks on input_path: the exception raised, "" when it passes
ValidationError(f, inp, b) ==
    IF ~Exists(f, inp) THEN "FileNotFoundError"
    ELSE IF b /\ ~IsDir(f, inp) THEN "ValueError"
    ELSE IF ~b /\ ~IsFile(f, inp) THEN "ValueError"
    ELSE ""

\* the batch output directory: the argument, or <input>/converted
BatchOutputDir(inp, outarg) ==
    IF Truthy(outarg) THEN outarg.path ELSE Join(inp, CONVERTED)

\* the destination named after the whole name of the source
BatchDest_FullName(out, src) == Join(out, Name(src) \o PNG_EXT)

\* output_path / f"{heic_file.stem}.png"
BatchDest(out, src) == Join(out, Stem(Name(src)) \o PNG_EXT)

\* the single-file destination without the directory test
SingleDest_NoDirCheck(f, inp, outarg) ==
    IF Truthy(outarg) THEN outarg.path ELSE WithSuffix(inp, PNG_EXT)

\* the single-file destination: the argument or the input with suffix .png,
\* and inside it when that is a directory
SingleDest(f, inp, outarg) ==
    LET o == IF Truthy(outarg) THEN outarg.path ELSE WithSuffix(inp, PNG_EXT)
    IN  IF IsDir(f, o) THEN Join(o, Stem(Name(inp)) \o PNG_EXT) ELSE o

\* min(multiprocessing.cpu_count(), len(heic_files))
MaxWorkers(cpu, n) == IF cpu < n THEN cpu ELSE n

\* a call of _convert_single_file that has been asked for and not yet started
NewTask(dest) ==
    [dest |-> dest, st |-> "queued", created |-> FALSE, img |-> NoImage,
     before |-> Absent, runs |-> 0, seen |-> FALSE]

\* lines 29-35 and 72-74: the checks on the input path
Validate ==
    /\ pc = "start"
    /\ LET e == ValidationError(fs, input_path, batch)
       IN  IF e # "" THEN pc' = "raised" /\ err' = e
           ELSE pc' = (IF batch THEN "mkdir" ELSE "resolve") /\ err' = err
    /\ UNCHANGED <<fs, fs0, input_path, output_arg, batch, output_path, heic_files,
                   max_workers, task, queue, converted_files, stderr, result>>

\* lines 37-41: the output directory is resolved and created
MakeOutputDir ==
    /\ pc = "mkdir"
    /\ LET out == BatchOutputDir(input_path, output_arg)
           e   == MkdirError(fs, out)
       IN  /\ output_path' = out
           /\ fs' = MkdirParents(fs, out)
           /\ IF e # "" THEN pc' = "raised" /\ err' = e
              ELSE pc' = "glob" /\ err' = err
    /\ UNCHANGED <<fs0, input_path, output_arg, batch, heic_files, max_workers, task,
                   queue, converted_files, stderr, result>>

\* lines 43-49: discovery, the early return and the size of the pool
Discover ==
    /\ pc = "glob"
    /\ \E cpu \in 1..MaxCpu :
        LET found == Glob(fs, input_path)
        IN  /\ heic_files' = found
            /\ IF found = {}
               THEN pc' = "returned" /\ max_workers' = max_workers
               ELSE pc' = "submit" /\ max_workers' = MaxWorkers(cpu, Cardinality(found))
    /\ UNCHANGED <<fs, fs0, input_path, output_arg, batch, err, output_path, task, queue,
                   converted_files, stderr, result>>

\* lines 52-58: one executor.submit of the dict comprehension
Submit(src) ==
    /\ pc = "submit"
    /\ src \in heic_files \ DOMAIN task
    /\ task' = task @@ (src :> NewTask(BatchDest(output_path, src)))
    /\ queue' = Append(queue, src)
    /\ pc' = IF heic_files \ DOMAIN task = {src} THEN "collect" ELSE "submit"
    /\ UNCHANGED <<fs, fs0, input_path, output_arg, batch, err, output_path, heic_files,
                   max_workers, converted_files, stderr, result>>

\* the loop letting the exception of a failed future leave the function
Collect_AbortOnFailure(src) ==
    /\ pc = "collect"
    /\ src \in DOMAIN task
    /\ task[src].st \in {"ok", "failed"}
    /\ ~task[src].seen
    /\ task' = [task EXCEPT ![src].seen = TRUE]
    /\ IF task[src].st = "ok"
       THEN /\ converted_files' = Append(converted_files, PathStr(task[src].dest))
            /\ pc' = pc
            /\ err' = err
       ELSE /\ converted_files' = converted_files
            /\ pc' = "raised"
            /\ err' = "Exception"
    /\ UNCHANGED <<fs, fs0, input_path, output_arg, batch, output_path, heic_files,
                   max_workers, queue, stderr, result>>

\* the loop submitting a failed file again
Collect_Retry(src) ==
    /\ pc = "collect"
    /\ src \in DOMAIN task
    /\ task[src].st \in {"ok", "failed"}
    /\ ~task[src].seen
    /\ IF task[src].st = "ok"
       THEN /\ converted_files' = Append(converted_files, PathStr(task[src].dest))
            /\ task' = [task EXCEPT ![src].seen = TRUE]
            /\ UNCHANGED <<stderr, queue>>
       ELSE /\ stderr' = Append(stderr, src)
            /\ task' = [task EXCEPT ![src].st = "queued"]
            /\ queue' = Append(queue, src)
            /\ converted_files' = converted_files
    /\ UNCHANGED <<fs, fs0, input_path, output_arg, batch, pc, err, output_path,
                   heic_files, max_workers, result>>

\* lines 60-68: one turn of the as_completed loop
Collect(src) ==
    /\ pc = "collect"
    /\ src \in DOMAIN task
    /\ task[src].st \in {"ok", "failed"}
    /\ ~task[src].seen
    /\ task' = [task EXCEPT ![src].seen = TRUE]
    /\ IF task[src].st = "ok"
       THEN /\ converted_files' = Append(converted_files, PathStr(task[src].dest))
            /\ stderr' = stderr
       ELSE /\ stderr' = Append(stderr, src)
            /\ converted_files' = converted_files
    /\ UNCHANGED <<fs, fs0, input_path, output_arg, batch, pc, err, output_path,
                   heic_files, max_workers, queue, result>>

\* lines 60, 70: the loop is exhausted, the executor shut down, the list returned
ReturnBatch ==
    /\ pc = "collect"
    /\ \A src \in DOMAIN task : task[src].seen
    /\ pc' = "returned"
    /\ result' = converted_files
    /\ UNCHANGED <<fs, fs0, input_path, output_arg, batch, err, output_path, heic_files,
                   max_workers, task, queue, converted_files, stderr>>

\* lines 76-83: the destination is resolved and _convert_single_file called
ResolveSingle ==
    /\ pc = "resolve"
    /\ output_path' = SingleDest(fs, input_path, output_arg)
    /\ task' = (input_path :> NewTask(output_path'))
    /\ queue' = <<input_path>>
    /\ pc' = "convert"
    /\ UNCHANGED <<fs, fs0, input_path, output_arg, batch, err, heic_files, max_workers,
                   converted_files, stderr, result>>

\* lines 83-84: the call returned, or its exception leaves the function
SingleDone ==
    /\ pc = "convert"
    /\ task[input_path].st \in {"ok", "failed"}
    /\ IF task[input_path].st = "ok"
       THEN pc' = "returned" /\ err' = err /\ result' = <<PathStr(output_path)>>
       ELSE pc' = "raised" /\ err' = "Exception" /\ result' = result
    /\ UNCHANGED <<fs, fs0, input_path, output_arg, batch, output_path, heic_files,
                   max_workers, task, queue, converted_files, stderr>>

(***************************************************************************)
(* _convert_single_file: run by a pool worker (batch) or by the caller.    *)
(* Image.save opens the destination with "w+b" after the image is loaded,  *)
(* writes the encoded stream to it, and on an error closes it and removes  *)
(* it if the open created it.                                              *)
(***************************************************************************)
\* the error of opening dest for writing, "" when it opens
OpenError(f, dest) ==
    IF ~IsDir(f, Parent(dest)) THEN "FileNotFoundError"
    ELSE IF IsDir(f, dest) THEN "IsADirectoryError"
    ELSE ""

\* the workers that are inside a call
Busy == {src \in DOMAIN task : task[src].st = "writing"}

\* lines 96-107: the file is decoded and normalized, the destination opened
ConvertOpen(src) ==
    /\ pc \in {"submit", "collect", "convert"}
    /\ queue # << >>
    /\ src = Head(queue)
    /\ batch => Cardinality(Busy) < max_workers
    /\ queue' = Tail(queue)
    /\ LET dest == task[src].dest
           e    == Entry(fs, src)
       IN  IF e.fmt # "heic" \/ OpenError(fs, dest) # ""
           THEN /\ task' = [task EXCEPT ![src].st = "failed",
                                        ![src].runs = @ + 1,
                                        ![src].before = Entry(fs, dest)]
                /\ fs' = fs
           ELSE /\ task' = [task EXCEPT ![src].st = "writing",
                                        ![src].runs = @ + 1,
                                        ![src].before = Entry(fs, dest),
                                        ![src].created = ~Exists(fs, dest),
                                        ![src].img = Normalize([mode |-> e.mode, px |-> e.px])]
                /\ fs' = Put(fs, dest, Truncated)
    /\ UNCHANGED <<fs0, input_path, output_arg, batch, pc, err, output_path, heic_files,
                   max_workers, converted_files, stderr, result>>

\* lines 107-108: the stream is written and the destination returned
ConvertWriteOk(src) ==
    /\ src \in DOMAIN task
    /\ task[src].st = "writing"
    /\ task' = [task EXCEPT ![src].st = "ok"]
    /\ fs' = IF Exists(fs, task[src].dest)
             THEN Put(fs, task[src].dest, PngFile(task[src].img))
             ELSE fs
    /\ UNCHANGED <<fs0, input_path, output_arg, batch, pc, err, output_path, heic_files,
                   max_workers, queue, converted_files, stderr, result>>

\* lines 107, 110-111: encoding or writing fails, the exception is wrapped
ConvertWriteFail(src) ==
    /\ src \in DOMAIN task
    /\ task[src].st = "writing"
    /\ task' = [task EXCEPT ![src].st = "failed"]
    /\ fs' = IF task[src].created /\ Exists(fs, task[src].dest)
             THEN Remove(fs, task[src].dest)
             ELSE fs
    /\ UNCHANGED <<fs0, input_path, output_arg, batch, pc, err, output_path, heic_files,
                   max_workers, queue, converted_files, stderr, result>>

Sources == {<<IN_DIR, n>> : n \in HeicNames}

Next ==
    \/ Validate
    \/ MakeOutputDir
    \/ Discover
    \/ \E src \in Sources : Submit(src)
    \/ \E src \in Sources : Collect(src)
    \/ ReturnBatch
    \/ ResolveSingle
    \/ SingleDone
    \/ \E src \in Sources : ConvertOpen(src)
    \/ \E src \in Sources : ConvertWriteOk(src)
    \/ \E src \in Sources : ConvertWriteFail(src)

Spec == Init /\ [][Next]_vars

(***************************************************************************)
(* Properties.                                                             *)
(***************************************************************************)
Range(s) == {s[i] : i \in 1..Len(s)}

\* the entries directly inside a directory
Children(f, dir) == {p \in DOMAIN f : Len(p) = Len(dir) + 1 /\ Parent(p) = dir}

Dirs(f) == {p \in DOMAIN f : f[p].kind = "dir"}

InputMissing == ~Exists(fs0, input_path)

\* an output argument was passed and is not the empty string
OutputGiven == output_arg.given /\ output_arg.path # <<>>

InputWrongKind ==
    /\ Exists(fs0, input_path)
    /\ \/ batch /\ fs0[input_path].kind # "dir"
       \/ ~batch /\ fs0[input_path].kind # "file"

\* C3: when the input path does not exist, or is of the wrong kind for the
\* mode, the call raises (FileNotFoundError, resp. ValueError) with the file
\* system as it found it: no directory created, no task dispatched, no file
\* written.
C3_ValidationFailsFast ==
    (InputMissing \/ InputWrongKind) =>
        /\ fs = fs0
        /\ task = << >>
        /\ queue = << >>
        /\ pc \in {"start", "raised"}
        /\ pc = "raised" =>
              err = (IF InputMissing THEN "FileNotFoundError" ELSE "ValueError")

C3_Witness ==
    /\ pc = "raised"
    /\ err = "ValueError"
    /\ batch
    /\ input_path = <<IN_DIR, A_HEIC>>
    /\ OutputGiven
    /\ ~Exists(fs, <<OUT_DIR>>)

\* the batch output directory the arguments ask for
ExpectedOutputDir ==
    IF OutputGiven THEN output_arg.path ELSE <<IN_DIR, CONVERTED>>

\* C7: in batch mode the output directory (given, or <input>/converted) and
\* its missing ancestors are directories from before the first task is
\* submitted until the call returns; creating it when it is already there
\* changes nothing.
C7_OutputDirBeforeTasks ==
    batch =>
        /\ (pc \in {"glob", "submit", "collect", "returned"} \/ task # << >>) =>
              /\ output_path = ExpectedOutputDir
              /\ \A q \in Ancestors(ExpectedOutputDir) : IsDir(fs, q)
        /\ (pc = "glob" /\ IsDir(fs0, ExpectedOutputDir)) => fs = fs0

C7_Witness ==
    /\ batch
    /\ pc = "collect"
    /\ output_arg.path = <<OUT_DIR, C_PNG>>
    /\ ~Exists(fs0, <<OUT_DIR>>)
    /\ \E src \in DOMAIN task : task[src].st = "writing"

\* the name the input's stem gives: <stem>.png
StemPng(src) == Stem(Name(src)) \o PNG_EXT

\* the single-file destination before the directory test
SingleCandidate ==
    IF OutputGiven THEN output_arg.path
    ELSE Join(Parent(input_path), StemPng(input_path))

\* C4 as stated: in single-file mode the destination is the input with its
\* extension replaced by .png when the output is omitted, <dir>/<stem>.png when
\* the output is an existing directory, and the given output otherwise.
C4_AsStated ==
    (~batch /\ task # << >>) =>
        task[input_path].dest =
            (IF ~OutputGiven THEN Join(Parent(input_path), StemPng(input_path))
             ELSE IF IsDir(fs0, output_arg.path)
                  THEN Join(output_arg.path, StemPng(input_path))
                  ELSE output_arg.path)

\* C4 (amended): in single-file mode the candidate is the given output or,
\* when it is omitted or empty, the input with its suffix replaced by .png
\* (appended when the name has none); a candidate
\* that is an existing directory (the default one too) becomes
\* <candidate>/<stem>.png, any other candidate is used verbatim; no directory
\* is created; the string returned is the path _convert_single_file was asked
\* to write.
C4_SingleDestination ==
    ~batch =>
        /\ Dirs(fs) = Dirs(fs0)
        /\ task # << >> =>
              /\ DOMAIN task = {input_path}
              /\ task[input_path].dest =
                    (IF IsDir(fs0, SingleCandidate)
                     THEN Join(SingleCandidate, StemPng(input_path))
                     ELSE SingleCandidate)
        /\ pc = "returned" => result = <<PathStr(task[input_path].dest)>>

C4_Witness ==
    /\ ~batch
    /\ pc = "returned"
    /\ ~output_arg.given
    /\ input_path = <<IN_DIR, A_HEIC>>
    /\ IsDir(fs0, <<IN_DIR, A_PNG>>)
    /\ result = <<IN_DIR \o <<SEP>> \o A_PNG \o <<SEP>> \o A_PNG>>

\* C5 as stated: every task's destination has suffix .png and the stem of its
\* source, in both modes and for every output argument.
C5_AsStated ==
    \A src \in DOMAIN task :
        /\ Suffix(Name(task[src].dest)) = PNG_EXT
        /\ Stem(Name(task[src].dest)) = Stem(Name(src))

\* C5 (amended): every task's destination has suffix .png and the stem of its
\* source in batch mode, and in single-file mode when the output is omitted,
\* empty or an existing directory; a single-file output that is not an existing
\* directory is used as given.
C5_DestinationFromStem ==
    \A src \in DOMAIN task :
        (batch \/ ~OutputGiven \/ IsDir(fs0, output_arg.path)) =>
            /\ Suffix(Name(task[src].dest)) = PNG_EXT
            /\ Stem(Name(task[src].dest)) = Stem(Name(src))
            /\ Len(task[src].dest) > 1

C5_Witness ==
    /\ batch
    /\ <<IN_DIR, DOT_HEIC_HEIC>> \in DOMAIN task
    /\ task[<<IN_DIR, DOT_HEIC_HEIC>>].st = "ok"
    /\ Name(task[<<IN_DIR, DOT_HEIC_HEIC>>].dest) = HEIC_EXT \o PNG_EXT

\* the image a source file decodes to
Decoded(src) == [mode |-> fs0[src].mode, px |-> fs0[src].px]

\* C10: whatever the mode of the input, the image saved is RGB with three
\* bands: RGBA and LA are composited over white with the last band as mask
\* (a transparent pixel becomes white, an opaque one keeps its color), RGB is
\* saved unchanged, every other mode is converted to RGB.
C10_SavedImageIsRGB ==
    /\ \A p \in DOMAIN fs : fs[p].fmt = "png" => fs[p].mode = "RGB" /\ Len(fs[p].px) = 3
    /\ \A src \in DOMAIN task :
          task[src].st \in {"writing", "ok"} =>
              LET d == Decoded(src)
                  i == task[src].img
              IN  /\ i.mode = "RGB"
                  /\ Len(i.px) = 3
                  /\ d.mode \in {"RGBA", "LA"} =>
                        /\ i = Composite(d)
                        /\ LastBand(d) = 0 => i.px = WHITE
                        /\ LastBand(d) = 255 => i.px = ColorBands(d)
                  /\ d.mode = "RGB" => i = d
                  /\ d.mode \notin {"RGBA", "LA", "RGB"} => i = ConvertRGB(d)

C10_Witness ==
    /\ <<IN_DIR, DOT_HEIC_HEIC>> \in DOMAIN task
    /\ task[<<IN_DIR, DOT_HEIC_HEIC>>].st = "ok"
    /\ Decoded(<<IN_DIR, DOT_HEIC_HEIC>>).mode = "LA"
    /\ Entry(fs, task[<<IN_DIR, DOT_HEIC_HEIC>>].dest) = PngFile([mode |-> "RGB", px |-> WHITE])

Done(src) == src \in DOMAIN task /\ task[src].st \in {"ok", "failed"}

\* C2: in batch mode a failing task cancels nothing: the call never raises
\* once a task has been dispatched, and when it returns every discovered file
\* has been run, each one that did not fail has its destination in the
\* returned list and each one that failed is on the error stream.
C2_FailureIsolation ==
    batch =>
        /\ pc = "raised" => task = << >>
        /\ pc = "returned" =>
              /\ result = converted_files
              /\ \A src \in heic_files :
                    /\ Done(src)
                    /\ task[src].runs = 1
                    /\ task[src].st = "ok" => PathStr(task[src].dest) \in Range(result)
                    /\ task[src].st = "failed" => src \in Range(stderr)
              /\ \A src \in Range(stderr) : Done(src) /\ task[src].st = "failed"

C2_Witness ==
    /\ batch
    /\ pc = "returned"
    /\ Cardinality(heic_files) = 2
    /\ \E a \in heic_files, b \in heic_files :
          /\ task[a].st = "failed"
          /\ stderr = <<a>>
          /\ task[b].st = "ok"
          /\ result = <<PathStr(task[b].dest)>>
          /\ Entry(fs, task[b].dest).fmt = "png"

\* C9: each discovered file is handed to _convert_single_file at most once
\* and never again: a failure is reported once, a success appended once, and
\* at return every discovered file has been submitted, run and collected.
C9_ExactlyOnce ==
    /\ \A src \in DOMAIN task :
          /\ task[src].runs <= 1
          /\ task[src].runs = 1 <=> task[src].st \in {"writing", "ok", "failed"}
          /\ task[src].seen => Done(src)
    /\ \A i \in 1..Len(queue) : \A j \in 1..Len(queue) : queue[i] = queue[j] => i = j
    /\ \A src \in Range(queue) : src \in DOMAIN task /\ task[src].st = "queued"
    /\ batch =>
          /\ Len(stderr) =
                Cardinality({src \in DOMAIN task : task[src].seen /\ task[src].st = "failed"})
          /\ Len(converted_files) =
                Cardinality({src \in DOMAIN task : task[src].seen /\ task[src].st = "ok"})
          /\ Cardinality(Range(stderr)) = Len(stderr)
          /\ pc = "returned" =>
                /\ DOMAIN task = heic_files
                /\ queue = << >>
                /\ \A src \in heic_files : Done(src) /\ task[src].seen /\ task[src].runs = 1
                /\ Len(result) + Len(stderr) = Cardinality(heic_files)

C9_Witness ==
    /\ batch
    /\ pc = "returned"
    /\ Len(stderr) = 2
    /\ \A src \in DOMAIN task : task[src].runs = 1 /\ task[src].seen

\* C1: a batch over N discovered files that starts with an empty (or absent)
\* output directory returns with successes + failures = N and with exactly
\* the returned paths present in the output directory.
C1_ReportMatchesDirectory ==
    (batch /\ pc = "returned" /\ Children(fs0, ExpectedOutputDir) = {}) =>
        /\ Len(result) + Len(stderr) = Cardinality(Glob(fs0, input_path))
        /\ {PathStr(p) : p \in Children(fs, output_path)} = Range(result)

\* the tasks other than src that were given the destination of src
Rivals(src) == {o \in DOMAIN task : o # src /\ task[o].dest = task[src].dest}

\* C6: a call of _convert_single_file that fails leaves its destination as
\* it was when the call began (no new and no truncated file), and one that
\* succeeds leaves the written PNG there.
C6_NoPartialFile ==
    \A src \in DOMAIN task :
        Rivals(src) = {} =>
            /\ task[src].st = "failed" => Entry(fs, task[src].dest) = task[src].before
            /\ task[src].st = "ok" => Entry(fs, task[src].dest) = PngFile(task[src].img)

\* C8: no two tasks of a batch have the same destination file.
C8_DistinctDestinations ==
    \A a \in DOMAIN task : \A b \in DOMAIN task : a # b => task[a].dest # task[b].dest

====
